---- MODULE Spec2Model ----
(***************************************************************************)
(* Model of tools/vis_gradcam.py: the pixel selector (get_pixels,          *)
(* get_random_pixels), crop, generate_fname, compute_overlap and the run   *)
(* loop of main (run, generate_and_save_saliency).                         *)
(*                                                                         *)
(* Python values are represented as follows.                               *)
(*   - a list / range object: a sequence;                                  *)
(*   - args.pixel_i, args.pixel_j: a sequence; <<>> stands for both the    *)
(*     argparse default 0 and an empty list (`--pixel-i` with no number),  *)
(*     told apart by the *_given flag of the call;                         *)
(*   - args.pixel_i_range: <<>> for None, <<start, stop, step>> otherwise  *)
(*     (argparse nargs=3);                                                  *)
(*   - a raised exception: the name of its class in a status field.        *)
(***************************************************************************)
EXTENDS Integers, Sequences, FiniteSets, TLC

VARIABLES
    call,       \* the pure function under test and its inputs (a record)
    ret,        \* what the call returned or raised (a record)
    run         \* state of main.run (a record), see InitRun

vars == <<call, ret, run>>

----------------------------------------------------------------------------
(* Bounds of the model.                                                    *)

MaxListLen == 2      \* longest explicit --pixel-i / --pixel-j list
MaxN == 3            \* largest n passed to get_random_pixels

NoCall == [fn |-> "none"]
NoRet == [status |-> "none"]
NoRun == [pc |-> "off"]

----------------------------------------------------------------------------
(* Python builtins used by the script.                                      *)

Min2(a, b) == IF a <= b THEN a ELSE b
Max2(a, b) == IF a >= b THEN a ELSE b

\* bool(x) of a list, of None (<<>>) and of the integer default 0 (<<>>).
Truthy(x) == Len(x) > 0

\* list(range(start, stop, step)) for step # 0.
RECURSIVE RangeFrom(_, _, _)
RangeFrom(start, stop, step) ==
    IF (step > 0 /\ start >= stop) \/ (step < 0 /\ start <= stop)
    THEN <<>>
    ELSE <<start>> \o RangeFrom(start + step, stop, step)

\* range(*r): TypeError when r is None, ValueError when the step is 0.
RangeCall(r) ==
    IF r = <<>> THEN [status |-> "TypeError", seq |-> <<>>]
    ELSE IF r[3] = 0 THEN [status |-> "ValueError", seq |-> <<>>]
    ELSE [status |-> "ok", seq |-> RangeFrom(r[1], r[2], r[3])]

\* `lst or range(*r)`
OrRange(lst, r) ==
    IF Truthy(lst) THEN [status |-> "ok", seq |-> lst] ELSE RangeCall(r)

\* [f(x) for x in s] flattened: sum(list of lists, [])
RECURSIVE Concat(_)
Concat(ss) == IF ss = <<>> THEN <<>> ELSE Head(ss) \o Concat(Tail(ss))

\* Zip with the two coordinates of each pair exchanged.
ZipSwapped(a, b) == [k \in 1..Min2(Len(a), Len(b)) |-> <<b[k], a[k]>>]

\* list(zip(a, b))
Zip(a, b) == [k \in 1..Min2(Len(a), Len(b)) |-> <<a[k], b[k]>>]

----------------------------------------------------------------------------
(* get_pixels                                                               *)

Raise(e) == [status |-> e, pixels |-> <<>>]

\* get_pixels without the assertion of line 108 on the column axis.
GetPixelsAssertRowsOnly(pixel_i, pixel_j, pixel_i_range, pixel_j_range, cartesian_product) ==
    IF Truthy(pixel_i) /\ Truthy(pixel_i_range) THEN Raise("AssertionError")
    ELSE LET pixel_is == OrRange(pixel_i, pixel_i_range) IN
    IF pixel_is.status # "ok" THEN Raise(pixel_is.status)
    ELSE LET pixel_js == OrRange(pixel_j, pixel_j_range) IN
    IF pixel_js.status # "ok" THEN Raise(pixel_js.status)
    ELSE IF cartesian_product
    THEN [status |-> "ok",
          pixels |-> Concat([b \in 1..Len(pixel_js.seq) |->
                        [a \in 1..Len(pixel_is.seq) |->
                            <<pixel_is.seq[a], pixel_js.seq[b]>>]])]
    ELSE [status |-> "ok", pixels |-> Zip(pixel_is.seq, pixel_js.seq)]

GetPixels(pixel_i, pixel_j, pixel_i_range, pixel_j_range, cartesian_product) ==
    IF Truthy(pixel_i) /\ Truthy(pixel_i_range) THEN Raise("AssertionError")
    ELSE LET pixel_is == OrRange(pixel_i, pixel_i_range) IN
    IF pixel_is.status # "ok" THEN Raise(pixel_is.status)
    ELSE IF Truthy(pixel_j) /\ Truthy(pixel_j_range) THEN Raise("AssertionError")
    ELSE LET pixel_js == OrRange(pixel_j, pixel_j_range) IN
    IF pixel_js.status # "ok" THEN Raise(pixel_js.status)
    ELSE IF cartesian_product
    THEN [status |-> "ok",
          pixels |-> Concat([b \in 1..Len(pixel_js.seq) |->
                        [a \in 1..Len(pixel_is.seq) |->
                            <<pixel_is.seq[a], pixel_js.seq[b]>>]])]
    ELSE [status |-> "ok", pixels |-> Zip(pixel_is.seq, pixel_js.seq)]

\* Inputs of the get_pixels specification.
ListValues == {-1, 0, 2}
SeqsUpTo(S, n) == UNION {[1..k -> S] : k \in 0..n}
PixelLists == SeqsUpTo(ListValues, MaxListLen)
PixelRanges == {<<>>} \cup ({0, 2} \X {-1, 3} \X {-1, 0, 2})

\* An axis argument: the list, and whether the option was given at all.
AxisArgs == {a \in [given : BOOLEAN, list : PixelLists] :
                ~a.given => a.list = <<>>}

InitGetPixels ==
    /\ call \in [fn : {"get_pixels"}, pixel_i : AxisArgs, pixel_j : AxisArgs,
                 pixel_i_range : PixelRanges, pixel_j_range : PixelRanges,
                 cartesian_product : BOOLEAN]
    /\ ret = NoRet
    /\ run = NoRun

CallGetPixels ==
    /\ call.fn = "get_pixels"
    /\ ret = NoRet
    /\ ret' = GetPixels(call.pixel_i.list, call.pixel_j.list,
                        call.pixel_i_range, call.pixel_j_range,
                        call.cartesian_product)
    /\ UNCHANGED <<call, run>>

NextGetPixels == CallGetPixels

SpecGetPixels == InitGetPixels /\ [][NextGetPixels]_vars

----------------------------------------------------------------------------
(* get_random_pixels                                                        *)

MaxPixels == 3       \* longest candidate list passed to get_random_pixels

\* The set of elements of a sequence.
Elems(s) == {s[k] : k \in 1..Len(s)}

\* Binning by the row alone.
BinOfRowOnly(p, bin_size) == <<p[1] \div bin_size, 0>>

\* (i // bin_size, j // bin_size)
BinOf(p, bin_size) == <<p[1] \div bin_size, p[2] \div bin_size>>

\* list(bin_to_pixels.keys()): the bins in the order of their first pixel.
RECURSIVE BinKeys(_, _)
BinKeys(pixels, bin_size) ==
    IF pixels = <<>> THEN <<>>
    ELSE LET front == BinKeys(SubSeq(pixels, 1, Len(pixels) - 1), bin_size)
             b == BinOf(pixels[Len(pixels)], bin_size)
         IN IF b \in Elems(front) THEN front ELSE Append(front, b)

\* bin_to_pixels[bin]: the pixels of a bin in the order they were appended.
RECURSIVE BinToPixels(_, _, _)
BinToPixels(pixels, bin_size, bin) ==
    IF pixels = <<>> THEN <<>>
    ELSE IF BinOf(Head(pixels), bin_size) = bin
         THEN <<Head(pixels)>> \o BinToPixels(Tail(pixels), bin_size, bin)
         ELSE BinToPixels(Tail(pixels), bin_size, bin)

\* The outcomes of random.sample(population, k) for 0 <= k <= len(population):
\* every list of k elements taken at distinct positions, in any order.
RandomSample(population, k) ==
    {[m \in 1..k |-> population[idx[m]]] :
        idx \in {f \in [1..k -> 1..Len(population)] :
                    \A a, b \in 1..k : a # b => f[a] # f[b]}}

\* The lists get_random_pixels can return; which one is decided by the
\* generator seeded with `seed`.
GetRandomPixels(n, pixels, bin_size, seed) ==
    LET keys == BinKeys(pixels, bin_size)
        pixels_per_bins ==
            IF n >= Len(keys)
            THEN {[k \in 1..Len(keys) |-> BinToPixels(pixels, bin_size, keys[k])]}
            ELSE {[k \in 1..n |-> BinToPixels(pixels, bin_size, bins[k])] :
                    bins \in RandomSample(keys, n)}
    IN UNION {
         {[k \in 1..Len(ppb) |-> ppb[k][indices[k]]] :
            indices \in {f \in [1..Len(ppb) -> 1..Len(pixels)] :
                            \A k \in 1..Len(ppb) : f[k] <= Len(ppb[k])}}
         : ppb \in pixels_per_bins}

Grid == (0..2) \X (0..1)
BinSizes == {1, 2, 300}
Seeds == {0, 1}

InitRandomPixels ==
    /\ call \in [fn : {"get_random_pixels"}, n : 0..MaxN,
                 pixels : SeqsUpTo(Grid, MaxPixels), bin_size : BinSizes,
                 seed : Seeds]
    /\ ret = NoRet
    /\ run = NoRun

CallGetRandomPixels ==
    /\ call.fn = "get_random_pixels"
    /\ ret = NoRet
    /\ \E r \in GetRandomPixels(call.n, call.pixels, call.bin_size, call.seed) :
            ret' = [status |-> "ok", pixels |-> r]
    /\ UNCHANGED <<call, run>>

NextRandomPixels == CallGetRandomPixels

SpecRandomPixels == InitRandomPixels /\ [][NextRandomPixels]_vars

----------------------------------------------------------------------------
(* crop                                                                     *)

MaxCropSize == 5     \* largest --crop-size

\* The indices image[lo:hi] selects on an axis of length n (Python slicing:
\* a negative bound counts from the end, then both are clipped to 0..n).
SliceIndices(lo, hi, n) ==
    LET norm(x) == IF x < 0 THEN Max2(x + n, 0) ELSE Min2(x, n)
    IN {k \in 0..(n - 1) : norm(lo) <= k /\ k < norm(hi)}

\* crop whose window is shifted up from a clamped low bound to keep `size`.
CropShifted(i, j, size, shape) ==
    LET slice_i == <<Max2(i - size \div 2, 0), Max2(i - size \div 2, 0) + size>>
        slice_j == <<Max2(j - size \div 2, 0), Max2(j - size \div 2, 0) + size>>
    IN [slice_i |-> slice_i, slice_j |-> slice_j,
        rows |-> SliceIndices(slice_i[1], slice_i[2], shape[1]),
        cols |-> SliceIndices(slice_j[1], slice_j[2], shape[2])]

\* crop(i, j, size, image) on an image of `shape` = (rows, columns): the two
\* slices and the rows and columns of the image they select (the same for a
\* tensor [..., rows, cols] and for an array [rows, cols, ...]).
Crop(i, j, size, shape) ==
    LET half == size \div 2
        slice_i == <<Max2(i - half, 0), i + half>>
        slice_j == <<Max2(j - half, 0), j + half>>
    IN [slice_i |-> slice_i, slice_j |-> slice_j,
        rows |-> SliceIndices(slice_i[1], slice_i[2], shape[1]),
        cols |-> SliceIndices(slice_j[1], slice_j[2], shape[2])]

ImageShapes == {<<6, 5>>, <<7, 7>>}

InitCrop ==
    /\ call \in {c \in [fn : {"crop"}, i : -1..6, j : -1..6, size : 1..MaxCropSize,
                         shape : ImageShapes, is_tensor : BOOLEAN] :
                    c.i < c.shape[1] /\ c.j < c.shape[2]}
    /\ ret = NoRet
    /\ run = NoRun

CallCrop ==
    /\ call.fn = "crop"
    /\ ret = NoRet
    /\ ret' = [status |-> "ok", window |-> Crop(call.i, call.j, call.size, call.shape)]
    /\ UNCHANGED <<call, run>>

NextCrop == CallCrop

SpecCrop == InitCrop /\ [][NextCrop]_vars

----------------------------------------------------------------------------
(* generate_fname                                                           *)

MaxFields == 3       \* most fields of a kwargs mapping

\* The keys of the mappings tried, with their spelling in code points.
Spelling ==
    [image   |-> <<105, 109, 97, 103, 101>>,
     pixel_i |-> <<112, 105, 120, 101, 108, 95, 105>>,
     pixel_j |-> <<112, 105, 120, 101, 108, 95, 106>>,
     suffix  |-> <<115, 117, 102, 102, 105, 120>>,
     cls     |-> <<99, 108, 115>>,
     crop    |-> <<99, 114, 111, 112>>]
FieldKeys == DOMAIN Spelling
FieldValues == {"0", "7"}

\* Lexicographic order of two strings given by their code points.
RECURSIVE CodesLess(_, _)
CodesLess(a, b) ==
    IF b = <<>> THEN FALSE
    ELSE IF a = <<>> THEN TRUE
    ELSE IF Head(a) # Head(b) THEN Head(a) < Head(b)
    ELSE CodesLess(Tail(a), Tail(b))

\* The opposite comparison, a > b.
StrGreater(a, b) == CodesLess(Spelling[b], Spelling[a])

\* a < b for two strings (str.__lt__).
StrLess(a, b) == CodesLess(Spelling[a], Spelling[b])

\* sorted(keys)
RECURSIVE Sorted(_)
Sorted(keys) ==
    IF keys = {} THEN <<>>
    ELSE LET least == CHOOSE k \in keys : \A o \in keys \ {k} : StrLess(k, o)
         IN <<least>> \o Sorted(keys \ {least})

\* A dict is the sequence of its (key, value) items in insertion order.
DictKeys(d) == {d[k][1] : k \in 1..Len(d)}
DictGet(d, key) == (CHOOSE k \in 1..Len(d) : d[k][1] = key)
DictPop(d, key) == SelectSeq(d, LAMBDA item : item[1] # key)
Dicts(n) == {d \in SeqsUpTo(FieldKeys \X FieldValues, n) :
                \A a, b \in 1..Len(d) : a # b => d[a][1] # d[b][1]}

\* '-'.join(parts)
RECURSIVE Join(_)
Join(parts) ==
    IF parts = <<>> THEN <<>>
    ELSE IF Len(parts) = 1 THEN Head(parts)
    ELSE Head(parts) \o <<"-">> \o Join(Tail(parts))

\* The first loop of generate_fname: the keys of `order` found in kwargs.
RECURSIVE OrderedParts(_, _)
OrderedParts(kwargs, order) ==
    IF order = <<>> THEN [parts |-> <<>>, kwargs |-> kwargs]
    ELSE IF Head(order) \notin DictKeys(kwargs)
         THEN OrderedParts(kwargs, Tail(order))
         ELSE LET rest == OrderedParts(DictPop(kwargs, Head(order)), Tail(order))
              IN [parts |-> <<<<Head(order), "-",
                               kwargs[DictGet(kwargs, Head(order))][2]>>>>
                               \o rest.parts,
                  kwargs |-> rest.kwargs]

DefaultOrder == <<"image", "pixel_i", "pixel_j">>

\* generate_fname that pops from the caller's mapping instead of a copy.
GenerateFnameNoCopy(kwargs, order) ==
    LET first == OrderedParts(kwargs, order)
        keys == Sorted(DictKeys(first.kwargs))
        rest == [k \in 1..Len(keys) |->
                    <<keys[k], "-", first.kwargs[DictGet(first.kwargs, keys[k])][2]>>]
    IN [status |-> "ok", fname |-> Join(first.parts \o rest), kwargs |-> <<>>]

\* generate_fname(kwargs, order): the file name, character groups in a
\* sequence, and the caller's mapping after the call.
GenerateFname(kwargs, order) ==
    LET copy == kwargs
        first == OrderedParts(copy, order)
        keys == Sorted(DictKeys(first.kwargs))
        rest == [k \in 1..Len(keys) |->
                    <<keys[k], "-", first.kwargs[DictGet(first.kwargs, keys[k])][2]>>]
    IN [status |-> "ok", fname |-> Join(first.parts \o rest), kwargs |-> kwargs]

InitFname ==
    /\ call \in [fn : {"generate_fname"}, kwargs : Dicts(MaxFields)]
    /\ ret = NoRet
    /\ run = NoRun

CallGenerateFname ==
    /\ call.fn = "generate_fname"
    /\ ret = NoRet
    /\ ret' = GenerateFname(call.kwargs, DefaultOrder)
    /\ UNCHANGED <<call, run>>

NextFname == CallGenerateFname

SpecFname == InitFname /\ [][NextFname]_vars

----------------------------------------------------------------------------
(* compute_overlap                                                          *)

LabelPixels == 4     \* pixels of a label map (flattened, 2 x 2)

IgnoreLabel == 255   \* the class id compute_overlap pops
ClassIds == {0, 13, IgnoreLabel}
\* Normalized saliency in [0, 1], in steps of 1/2: the value is level / 2.
SaliencyLevels == 0..2

RECURSIVE SeqSum(_)
SeqSum(q) == IF q = <<>> THEN 0 ELSE Head(q) + SeqSum(Tail(q))

\* The positions where label == cls, in order.
Selector(label, cls) == SelectSeq([k \in 1..Len(label) |-> k],
                                  LAMBDA k : label[k] = cls)

\* The sum of the saliency of a class divided by the size of the whole map.
MassOverWholeMap(label, gradcam, cls) ==
    [num |-> SeqSum([k \in 1..Len(Selector(label, cls)) |->
                        gradcam[Selector(label, cls)[k]]]),
     den |-> Len(label)]

\* gradcam[selector].sum() / selector.sum(), kept as the exact quotient.
Mass(label, gradcam, cls) ==
    LET selector == Selector(label, cls)
    IN [num |-> SeqSum([k \in 1..Len(selector) |-> gradcam[selector[k]]]),
        den |-> Len(selector)]

\* compute_overlap(label, gradcam), with `normalized` standing for
\* GradCAM.normalize(gradcam)[0,0]; cls_to_mass.pop(255) raises KeyError when
\* the label map has no pixel of class 255.
ComputeOverlap(label, normalized) ==
    LET unique == Elems(label)
        cls_to_mass == [cls \in unique |-> Mass(label, normalized, cls)]
    IN IF IgnoreLabel \notin DOMAIN cls_to_mass
       THEN [status |-> "KeyError", cls_to_mass |-> <<>>]
       ELSE [status |-> "ok",
             cls_to_mass |-> [cls \in unique \ {IgnoreLabel} |-> cls_to_mass[cls]]]

InitOverlap ==
    /\ call \in [fn : {"compute_overlap"}, label : [1..LabelPixels -> ClassIds],
                 normalized : [1..LabelPixels -> SaliencyLevels]]
    /\ ret = NoRet
    /\ run = NoRun

CallComputeOverlap ==
    /\ call.fn = "compute_overlap"
    /\ ret = NoRet
    /\ ret' = ComputeOverlap(call.label, call.normalized)
    /\ UNCHANGED <<call, run>>

NextOverlap == CallComputeOverlap

SpecOverlap == InitOverlap /\ [][NextOverlap]_vars

----------------------------------------------------------------------------
(* main: the loop over hierarchy nodes, run and generate_and_save_saliency  *)

\* (config.TEST.IMAGE_SIZE[1], config.TEST.IMAGE_SIZE[0]): rows, columns.
TestSize == <<2, 2>>
\* class_names.index(args.crop_for) when --crop-for car is given.
CropForClass == 13
\* The label maps of the dataset, row-major over TestSize: one with pixels of
\* the crop class, one without, one without a pixel of the ignored class.
Labels == {<<13, 255, 0, 13>>, <<0, 0, 255, 0>>, <<13, 0, 0, 0>>}
\* The values one saliency map can hold.
SaliencyValues == {-1001, -1, 2}
\* The --pixel-i, --pixel-j, --pixel-i-range and --pixel-j-range tried.
PixelArgs ==
    {[pixel_i |-> <<>>, pixel_j |-> <<>>, pixel_i_range |-> <<>>, pixel_j_range |-> <<>>],
     [pixel_i |-> <<0, 1>>, pixel_j |-> <<1, 1>>, pixel_i_range |-> <<>>, pixel_j_range |-> <<>>],
     [pixel_i |-> <<-1>>, pixel_j |-> <<0>>, pixel_i_range |-> <<>>, pixel_j_range |-> <<>>],
     [pixel_i |-> <<>>, pixel_j |-> <<0, 1>>, pixel_i_range |-> <<1, 3, 1>>, pixel_j_range |-> <<>>],
     [pixel_i |-> <<0>>, pixel_j |-> <<0>>, pixel_i_range |-> <<1, 3, 1>>, pixel_j_range |-> <<>>],
     [pixel_i |-> <<1>>, pixel_j |-> <<>>, pixel_i_range |-> <<>>, pixel_j_range |-> <<>>]}
\* --crop-size: the default -1 and a window of two rows and columns.
CropSizes == {-1, 2}
\* --target-layers
TargetLayerLists == {<<"last_layer">>, <<"layer3", "last_layer">>}
\* --image-index (default 0) and --image-index-range
ImageIndexArgs == {[image_index |-> 0, image_index_range |-> <<>>],
                   [image_index |-> 0, image_index_range |-> <<0, 2, 1>>]}
\* --nbdt-node-wnid
NodeLists == {<<>>, <<"n01", "n02">>}
\* --pixel-max-num-random
MaxNumRandoms == {1, 10}

RunArgs ==
    [whole_image : BOOLEAN,            \* getattr(Saliency, 'whole_image', False)
     crop_size : CropSizes,
     crop_for : BOOLEAN,               \* whether --crop-for (car) is given
     pixel : PixelArgs,
     pixel_cartesian_product : BOOLEAN,
     pixel_max_num_random : MaxNumRandoms,
     target_layers : TargetLayerLists,
     image : ImageIndexArgs,
     nbdt_node_wnid : NodeLists]

\* get_image_indices
GetImageIndices(image_index, image_index_range) ==
    IF Truthy(image_index_range)
    THEN RangeCall(image_index_range).seq
    ELSE <<image_index>>

\* A start of image that keeps the bounds of the image before.
KeepBounds(maximum, minimum) == [maximum |-> maximum, minimum |-> minimum]

\* maximum, minimum = -1000, 0
StartBounds(maximum, minimum) == [maximum |-> -1000, minimum |-> 0]

\* A whole-image branch that never takes its `continue`.
WholeImageFallsThrough(crop_size) == FALSE

\* `if args.crop_size <= 0: continue` after the whole-image map.
WholeImageContinues(crop_size) == crop_size <= 0

\* (label == cls_index).nonzero(): the (row, column) of the pixels of cls.
NonZero(label, cls) ==
    LET ks == Selector(label, cls)
    IN [n \in 1..Len(ks) |->
            <<(ks[n] - 1) \div TestSize[2], (ks[n] - 1) % TestSize[2]>>]

\* get_random_pixels as run calls it. The candidates are rows of a tensor:
\* where their elements hash by identity every candidate is a bin of its own,
\* where they hash by value the bins are those of get_random_pixels above.
RunRandomPixels(n, pixels, seed) ==
    GetRandomPixels(n, pixels, 300, seed)
        \cup (IF n >= Len(pixels) THEN {pixels} ELSE RandomSample(pixels, n))

\* generate_save_path(output_dir, gradcam_kwargs, suffix='', ext='jpg') called
\* with the positional arguments `positional`: TypeError unless 2 to 4.
GenerateSavePath(positional, ext) ==
    IF Len(positional) < 2 \/ Len(positional) > 4
    THEN [status |-> "TypeError", path |-> <<>>]
    ELSE [status |-> "ok",
          path |-> <<positional[1],
                     GenerateFname(positional[2], DefaultOrder).fname, ext>>]

\* generate_output_dir for a layer: method_layer[_crop{size}].
GenerateOutputDir(layer, crop_size) ==
    IF crop_size > 0 THEN <<layer, "crop", crop_size>> ELSE <<layer>>

\* str(value) of the integers that enter a file name.
Str(n) == <<"-1", "0", "1", "2", "3">>[n + 2]

NoPixel == <<>>

InitRun ==
    /\ call = NoCall
    /\ ret = NoRet
    /\ \E args \in RunArgs :
         run = [pc |-> "main", args |-> args, error |-> "none",
                node |-> 0,            \* runs of run() started so far
                img |-> 0,             \* position in the image indices
                label |-> <<>>,        \* None
                maximum |-> -1000, minimum |-> 0,
                gradcam_kwargs |-> <<>>,
                pixels |-> <<>>, pix |-> 0,
                gen |-> NoPixel,       \* (pixel_i, pixel_j, crop_size) or None
                layer |-> 0, heatmaps |-> <<>>, ret_to |-> "none",
                save_path |-> <<>>,
                \* history of the current image
                img_status |-> "none", img_maps |-> <<>>, img_seen |-> {},
                img_pixel_iterations |-> 0,
                \* history of the whole run
                maps |-> 0, backward |-> {}, map_pixels |-> {},
                overlaps |-> {}, combine_reached |-> 0, combined_saved |-> 0]

Abort(e) == [run EXCEPT !.pc = "aborted", !.error = e]

\* main, lines 457-465: run() once per node, or once when there is none.
MainLoop ==
    /\ run.pc = "main"
    /\ LET runs == IF run.args.nbdt_node_wnid = <<>> THEN 1
                   ELSE Len(run.args.nbdt_node_wnid)
       IN run' = IF run.node < runs
                 THEN [run EXCEPT !.pc = "image", !.node = @ + 1, !.img = 0]
                 ELSE [run EXCEPT !.pc = "done"]
    /\ UNCHANGED <<call, ret>>

\* run, lines 382-395: the next image index, its label, the reset of the
\* bounds and the skip of an image without the class to crop for.
NextImage ==
    /\ run.pc = "image"
    /\ LET indices == GetImageIndices(run.args.image.image_index,
                                      run.args.image.image_index_range)
       IN IF run.img = Len(indices)
          THEN run' = [run EXCEPT !.pc = "main"]
          ELSE \E label \in Labels :
                LET b == StartBounds(run.maximum, run.minimum)
                    skip == run.args.crop_for /\ CropForClass \notin Elems(label)
                IN run' = [run EXCEPT
                            !.img = @ + 1, !.label = label,
                            !.maximum = b.maximum, !.minimum = b.minimum,
                            !.img_status = IF skip THEN "skipped" ELSE "active",
                            !.img_maps = [l \in 1..Len(run.args.target_layers) |-> 0],
                            !.img_seen = {}, !.img_pixel_iterations = 0,
                            !.pc = IF skip THEN "image"
                                   ELSE IF run.args.whole_image THEN "whole"
                                   ELSE "select"]
    /\ UNCHANGED <<call, ret>>

ImageIndex == GetImageIndices(run.args.image.image_index,
                              run.args.image.image_index_range)[run.img]

AnyPixelArg ==
    \/ Truthy(run.args.pixel.pixel_i) \/ Truthy(run.args.pixel.pixel_j)
    \/ Truthy(run.args.pixel.pixel_i_range) \/ Truthy(run.args.pixel.pixel_j_range)

\* run, lines 395-406: the whole-image branch up to the call of
\* generate_and_save_saliency(image_index).
WholeImage ==
    /\ run.pc = "whole"
    /\ run' = IF AnyPixelArg THEN Abort("AssertionError")
              ELSE [run EXCEPT
                      !.gradcam_kwargs = <<<<"image", Str(ImageIndex)>>>>,
                      !.gen = NoPixel, !.layer = 1, !.heatmaps = <<>>,
                      !.ret_to = "whole", !.pc = "layer"]
    /\ UNCHANGED <<call, ret>>

\* The rows and columns of the map a call of generate_and_save_saliency works
\* on: the crop window when a pixel and a crop size were passed.
Region(gen) ==
    IF gen = NoPixel
    THEN [rows |-> 0..(TestSize[1] - 1), cols |-> 0..(TestSize[2] - 1)]
    ELSE Crop(gen[1], gen[2], gen[3], TestSize)

\* `if crop_size and pixel_i and pixel_j: continue` (line 348).
SkipOverlap(gen) == gen # NoPixel /\ gen[3] # 0 /\ gen[1] # 0 /\ gen[2] # 0

\* save_overlap(..., gradcam_region, label): the boolean mask label == cls
\* has the shape of the image, so indexing a smaller region raises
\* IndexError; otherwise compute_overlap decides. The mapping itself goes to
\* disk and is not kept.
SaveOverlap(gen, label) ==
    LET region == Region(gen)
    IN IF <<Cardinality(region.rows), Cardinality(region.cols)>> # TestSize
       THEN "IndexError"
       ELSE ComputeOverlap(label, [k \in 1..Len(label) |-> 0]).status

\* generate_and_save_saliency, lines 321-357: one iteration of the loop over
\* the target layers.
Layer ==
    /\ run.pc = "layer"
    /\ LET region == Region(run.gen)
           name == run.args.target_layers[run.layer]
           last == run.layer = Len(run.args.target_layers)
       IN IF region.rows = {} \/ region.cols = {}
          THEN run' = Abort("RuntimeError")   \* max() of an empty tensor
          ELSE \E lo, hi \in SaliencyValues :
                /\ lo <= hi
                /\ LET output_dir == GenerateOutputDir(name, run.args.crop_size)
                       saved == [run EXCEPT
                          !.maximum = Max2(hi, run.maximum),
                          !.minimum = Min2(lo, run.minimum),
                          !.heatmaps = Append(@, <<lo, hi>>),
                          !.save_path =
                              GenerateSavePath(<<output_dir, run.gradcam_kwargs>>,
                                               "jpg").path,
                          !.img_maps[run.layer] = @ + 1,
                          !.img_seen = @ \cup {lo, hi},
                          !.maps = @ + 1,
                          !.map_pixels = IF run.ret_to = "pixel"
                                         THEN @ \cup {run.pixels[run.pix]} ELSE @]
                       next == [saved EXCEPT
                          !.pc = IF last THEN "combine" ELSE "layer",
                          !.layer = IF last THEN @ ELSE @ + 1]
                   IN IF SkipOverlap(run.gen)
                      THEN run' = next
                      ELSE LET status == SaveOverlap(run.gen, run.label)
                           IN IF status # "ok"
                              THEN run' = [saved EXCEPT !.pc = "aborted",
                                                        !.error = status]
                              ELSE run' = [next EXCEPT !.overlaps = @ \cup
                                            {[cropped |-> run.gen # NoPixel,
                                              pixel |-> run.gen]}]
    /\ UNCHANGED <<call, ret>>

\* generate_and_save_saliency, lines 358-363, and the return to run: after
\* the whole-image map (lines 408-409) or to the loop over the pixels.
Combine ==
    /\ run.pc = "combine"
    /\ LET returned == [run EXCEPT
              !.pc = IF run.ret_to = "pixel" THEN "pixel"
                     ELSE IF WholeImageContinues(run.args.crop_size)
                          THEN "image" ELSE "select",
              !.img_status = IF run.ret_to = "whole"
                                /\ WholeImageContinues(run.args.crop_size)
                             THEN "completed" ELSE @]
       IN IF Len(run.heatmaps) > 1
          THEN LET save == GenerateSavePath(
                              <<"final_output_dir", "vis_mode", run.gradcam_kwargs,
                                "combined", "use_nbdt", "nbdt_node_wnid">>, "jpg")
               IN IF save.status # "ok"
                  THEN run' = [run EXCEPT !.pc = "aborted", !.error = save.status,
                                          !.combine_reached = 1]
                  ELSE run' = [returned EXCEPT !.save_path = save.path,
                                               !.combine_reached = 1,
                                               !.combined_saved = 1]
          ELSE run' = returned
    /\ UNCHANGED <<call, ret>>

\* run, lines 411-425: the pixels of the image.
SelectPixels ==
    /\ run.pc = "select"
    /\ LET a == run.args.pixel
           start(pixels) == [run EXCEPT !.pixels = pixels, !.pix = 0, !.pc = "pixel"]
       IN IF run.args.crop_for
          THEN \E pixels \in RunRandomPixels(run.args.pixel_max_num_random,
                                NonZero(run.label, CropForClass), CropForClass) :
                    run' = start(pixels)
          ELSE IF ~(/\ Truthy(a.pixel_i) \/ Truthy(a.pixel_i_range)
                    /\ Truthy(a.pixel_j) \/ Truthy(a.pixel_j_range))
          THEN run' = Abort("AssertionError")
          ELSE LET got == GetPixels(a.pixel_i, a.pixel_j, a.pixel_i_range,
                                    a.pixel_j_range, run.args.pixel_cartesian_product)
               IN IF got.status # "ok"
                  THEN run' = Abort(got.status)
                  ELSE run' = start(got.pixels)
    /\ UNCHANGED <<call, ret>>

\* run, lines 427-449: the next pixel up to its call of
\* generate_and_save_saliency, or the end of the image.
Pixel ==
    /\ run.pc = "pixel"
    /\ IF run.pix = Len(run.pixels)
       THEN run' = [run EXCEPT !.pc = "image", !.img_status = "completed"]
       ELSE LET pixel_i == run.pixels[run.pix + 1][1]
                pixel_j == run.pixels[run.pix + 1][2]
            IN IF ~(pixel_i < TestSize[1] /\ pixel_j < TestSize[2])
               THEN run' = Abort("AssertionError")
               ELSE run' = [run EXCEPT
                      !.pix = @ + 1,
                      !.gradcam_kwargs = <<<<"image", Str(ImageIndex)>>,
                                           <<"pixel_i", Str(pixel_i)>>,
                                           <<"pixel_j", Str(pixel_j)>>>>,
                      !.backward = IF run.args.whole_image THEN @
                                   ELSE @ \cup {<<pixel_i, pixel_j>>},
                      !.img_pixel_iterations = @ + 1,
                      !.gen = IF run.args.crop_size <= 0 THEN NoPixel
                              ELSE <<pixel_i, pixel_j, run.args.crop_size>>,
                      !.layer = 1, !.heatmaps = <<>>,
                      !.ret_to = "pixel", !.pc = "layer"]
    /\ UNCHANGED <<call, ret>>

Next ==
    \/ MainLoop
    \/ NextImage
    \/ WholeImage
    \/ Layer
    \/ Combine
    \/ SelectPixels
    \/ Pixel

Spec == InitRun /\ [][Next]_vars

----------------------------------------------------------------------------
(* Claims                                                                   *)

Errors == {"AssertionError", "TypeError", "ValueError", "KeyError", "IndexError"}
Returned == ret # NoRet

\* The sequence an axis denotes when it is given in exactly one way.
AxisOneWay(axis, rng) ==
    \/ Truthy(axis.list) /\ rng = <<>>
    \/ ~axis.given /\ rng # <<>> /\ rng[3] # 0
AxisSeq(axis, rng) ==
    IF Truthy(axis.list) THEN axis.list ELSE RangeFrom(rng[1], rng[2], rng[3])
C1_Rows == AxisSeq(call.pixel_i, call.pixel_i_range)
C1_Cols == AxisSeq(call.pixel_j, call.pixel_j_range)
C1_Case ==
    /\ call.fn = "get_pixels" /\ Returned
    /\ AxisOneWay(call.pixel_i, call.pixel_i_range)
    /\ AxisOneWay(call.pixel_j, call.pixel_j_range)
    /\ C1_Rows # <<>> /\ C1_Cols # <<>>

\* C1: for non-empty axis sequences rows and cols, each given as a list or as
\* a range, get_pixels with cartesian_product returns exactly |rows| * |cols|
\* pairs, among them every combination (i, j) and nothing else; without it,
\* exactly min(|rows|, |cols|) pairs whose k-th pair is (rows[k], cols[k]).
C1_GetPixelsShape ==
    C1_Case =>
        /\ ret.status = "ok"
        /\ call.cartesian_product =>
              /\ Len(ret.pixels) = Len(C1_Rows) * Len(C1_Cols)
              /\ \A a \in 1..Len(C1_Rows), b \in 1..Len(C1_Cols) :
                    \E k \in 1..Len(ret.pixels) :
                        ret.pixels[k] = <<C1_Rows[a], C1_Cols[b]>>
              /\ \A k \in 1..Len(ret.pixels) :
                    \E a \in 1..Len(C1_Rows), b \in 1..Len(C1_Cols) :
                        ret.pixels[k] = <<C1_Rows[a], C1_Cols[b]>>
        /\ ~call.cartesian_product =>
              /\ Len(ret.pixels) = Min2(Len(C1_Rows), Len(C1_Cols))
              /\ \A k \in 1..Len(ret.pixels) :
                    ret.pixels[k] = <<C1_Rows[k], C1_Cols[k]>>

\* A zip of a three-element range with a two-element list has been returned.
C1_Witness ==
    /\ C1_Case /\ ~call.cartesian_product
    /\ call.pixel_i_range = <<2, -1, -1>> /\ call.pixel_j.list = <<0, 2>>
    /\ ret.pixels = <<<<2, 0>>, <<1, 2>>>>

C2_ConflictI == call.pixel_i.given /\ call.pixel_i_range # <<>>
C2_ConflictJ == call.pixel_j.given /\ call.pixel_j_range # <<>>

\* C2 as stated: whenever a list and a range are both supplied for the same
\* axis, get_pixels raises an assertion failure and returns no pixel set.
C2_AsStated ==
    (call.fn = "get_pixels" /\ Returned /\ (C2_ConflictI \/ C2_ConflictJ))
        => ret.status = "AssertionError" /\ ret.pixels = <<>>

C2_NonEmptyConflictI == Truthy(call.pixel_i.list) /\ call.pixel_i_range # <<>>
C2_NonEmptyConflictJ == Truthy(call.pixel_j.list) /\ call.pixel_j_range # <<>>

\* C2 amended: whenever a non-empty list and a range are both supplied for
\* the same axis, get_pixels raises an error and returns no pixel set, for
\* every value of the other axis and of the cartesian flag; the error is the
\* assertion failure when the conflict is on the row axis, or when it is on
\* the column axis and the row axis itself evaluates without error.
C2_ConflictRaises ==
    (call.fn = "get_pixels" /\ Returned
        /\ (C2_NonEmptyConflictI \/ C2_NonEmptyConflictJ))
        => /\ ret.status \in Errors /\ ret.pixels = <<>>
           /\ C2_NonEmptyConflictI => ret.status = "AssertionError"
           /\ OrRange(call.pixel_i.list, call.pixel_i_range).status = "ok"
                => ret.status = "AssertionError"

\* A conflict on the column axis alone has raised the assertion failure.
C2_Witness ==
    /\ call.fn = "get_pixels" /\ Returned
    /\ C2_NonEmptyConflictJ /\ ~C2_ConflictI
    /\ call.pixel_i.list = <<0>>
    /\ ret.status = "AssertionError"

\* The spatial bin of a pixel, as C3 defines it.
C3_Bin(p) == <<p[1] \div call.bin_size, p[2] \div call.bin_size>>
C3_Bins == {C3_Bin(p) : p \in Elems(call.pixels)}

C4_AtMostOnePerLayer == \A l \in DOMAIN run.img_maps : run.img_maps[l] <= 1
C4_OnePerLayer == \A l \in DOMAIN run.img_maps : run.img_maps[l] = 1
C4_LayersDone == run.img_status = "completed" \/ run.pc = "combine"
C4_PixelArgsAbort ==
    AnyPixelArg =>
        /\ run.maps = 0
        /\ run.pc \notin {"layer", "combine", "select", "pixel"}
        /\ run.pc = "aborted" => run.error = "AssertionError"

\* C4 as stated: in whole-image mode, for every crop_size and crop_for, each
\* image processed gets exactly one saliency map per target layer and no
\* per-pixel iteration; with a pixel argument the run aborts on the assertion
\* before any saliency map.
C4_AsStated ==
    (run.pc # "off" /\ run.args.whole_image) =>
        /\ C4_AtMostOnePerLayer
        /\ C4_LayersDone => C4_OnePerLayer
        /\ run.img_pixel_iterations = 0
        /\ C4_PixelArgsAbort

\* C4 amended: in whole-image mode with crop_size <= 0, each image whose
\* layer loop completes has exactly one saliency map per target layer (never
\* more), and neither pixel selection nor a per-pixel iteration happens; for
\* every crop_size and crop_for, with a non-empty pixel argument the run
\* never gets past the assertion of the first image that is not skipped: no
\* saliency map is generated and the only abort is the assertion error.
C4_WholeImageOneMap ==
    (run.pc # "off" /\ run.args.whole_image) =>
        /\ run.args.crop_size <= 0 =>
              /\ C4_AtMostOnePerLayer
              /\ C4_LayersDone => C4_OnePerLayer
              /\ run.img_pixel_iterations = 0
              /\ run.pc \notin {"select", "pixel"}
        /\ C4_PixelArgsAbort

\* The second image of a whole-image run without cropping has been completed
\* with the one map of its one target layer.
C4_Witness ==
    /\ run.pc = "image" /\ run.args.whole_image /\ run.args.crop_size <= 0
    /\ run.img = 2 /\ run.img_status = "completed"
    /\ run.img_maps = <<1>> /\ run.maps = 2

\* C5: whenever more than one target layer is active, each call of
\* generate_and_save_saliency that has written its per-layer heatmaps writes
\* the combined heatmap and completes without error.
C5_AsStated ==
    (run.pc # "off" /\ Len(run.args.target_layers) > 1) =>
        /\ run.combined_saved = run.combine_reached
        /\ run.error # "TypeError"

C6_PixelsOf(c) == {k \in 1..Len(call.label) : call.label[k] = c}
RECURSIVE C6_Sum(_)
C6_Sum(ks) ==
    IF ks = {} THEN 0
    ELSE LET k == CHOOSE x \in ks : TRUE
         IN call.normalized[k] + C6_Sum(ks \ {k})

\* C6: for every label map that contains the ignore id 255, compute_overlap
\* returns a mapping whose keys are the class ids of the label map other than
\* 255 and whose value for class c is the sum of the normalized saliency at
\* the pixels labelled c divided by the number of those pixels.
C6_OverlapIsClassMean ==
    (call.fn = "compute_overlap" /\ Returned
        /\ \E k \in 1..Len(call.label) : call.label[k] = 255) =>
        /\ ret.status = "ok"
        /\ DOMAIN ret.cls_to_mass = {call.label[k] : k \in 1..Len(call.label)} \ {255}
        /\ \A c \in DOMAIN ret.cls_to_mass :
              /\ ret.cls_to_mass[c].num = C6_Sum(C6_PixelsOf(c))
              /\ ret.cls_to_mass[c].den = Cardinality(C6_PixelsOf(c))

\* A map with two pixels of class 13, one of class 0 and one ignored.
C6_Witness ==
    /\ call.fn = "compute_overlap" /\ Returned
    /\ call.label = <<13, 255, 0, 13>> /\ call.normalized = <<2, 2, 1, 1>>
    /\ ret.cls_to_mass[13] = [num |-> 3, den |-> 2]
    /\ ret.cls_to_mass[0] = [num |-> 1, den |-> 1]

C7_Half == call.size \div 2
C7_Inside ==
    /\ call.fn = "crop" /\ Returned
    /\ 0 <= call.i /\ call.i < call.shape[1]
    /\ 0 <= call.j /\ call.j < call.shape[2]
\* The pixel is at least size/2 away from both edges of an axis of length n.
C7_Interior(x, n) == 2 * x >= call.size /\ 2 * (n - x) >= call.size
C7_AllInterior ==
    C7_Interior(call.i, call.shape[1]) /\ C7_Interior(call.j, call.shape[2])

\* C7 as stated: for every crop size s > 0 the window of a pixel at least s/2
\* from every edge is exactly s rows by s columns; when i < s/2 (j < s/2) the
\* low bound is 0 and the high bound stays i + s/2 (j + s/2).
C7_AsStated ==
    C7_Inside =>
        /\ C7_AllInterior =>
              /\ Cardinality(ret.window.rows) = call.size
              /\ Cardinality(ret.window.cols) = call.size
        /\ 2 * call.i < call.size => ret.window.slice_i = <<0, call.i + C7_Half>>
        /\ 2 * call.j < call.size => ret.window.slice_j = <<0, call.j + C7_Half>>

C7_HalfInterior(x, n) == x >= C7_Half /\ x + C7_Half <= n

\* C7 amended: with half = floor(s / 2), the window of a pixel at least half
\* from every edge is rows i - half .. i + half - 1 and columns
\* j - half .. j + half - 1, that is 2 * half rows by 2 * half columns
\* (s when s is even, s - 1 when s is odd); when i < half (j < half) the low
\* bound is clamped to 0 and the high bound stays i + half (j + half).
C7_CropWindow ==
    C7_Inside =>
        /\ C7_HalfInterior(call.i, call.shape[1]) =>
              ret.window.rows = (call.i - C7_Half)..(call.i + C7_Half - 1)
        /\ C7_HalfInterior(call.j, call.shape[2]) =>
              ret.window.cols = (call.j - C7_Half)..(call.j + C7_Half - 1)
        /\ (C7_HalfInterior(call.i, call.shape[1])
               /\ C7_HalfInterior(call.j, call.shape[2])) =>
              /\ Cardinality(ret.window.rows) = 2 * C7_Half
              /\ Cardinality(ret.window.cols) = 2 * C7_Half
              /\ 2 * C7_Half = IF call.size % 2 = 0 THEN call.size ELSE call.size - 1
        /\ call.i < C7_Half =>
              /\ ret.window.slice_i = <<0, call.i + C7_Half>>
              /\ ret.window.rows = 0..(Min2(call.i + C7_Half, call.shape[1]) - 1)
        /\ call.j < C7_Half =>
              /\ ret.window.slice_j = <<0, call.j + C7_Half>>
              /\ ret.window.cols = 0..(Min2(call.j + C7_Half, call.shape[2]) - 1)

\* A crop of size 4 around a pixel in row 1: rows clamped to 0..2, columns
\* the full four.
C7_Witness ==
    /\ C7_Inside /\ call.size = 4 /\ call.i = 1 /\ call.j = 3
    /\ ret.window.rows = 0..2 /\ ret.window.cols = 1..4

\* The keys that are not in the default order, in ascending order.
C8_Ascending == <<"cls", "crop", "suffix">>
C8_Rank(key) ==
    CHOOSE r \in 1..6 :
        (<<"image", "pixel_i", "pixel_j">> \o C8_Ascending)[r] = key
C8_Fields == {call.kwargs[k] : k \in 1..Len(call.kwargs)}

\* C8: generate_fname lists 'image', 'pixel_i', 'pixel_j' first in that order
\* (each only if present), then the remaining fields in ascending key order,
\* each as key-value, joined by '-', whatever the insertion order of the
\* mapping; the caller's mapping is left unmodified.
C8_FnameOrder ==
    (call.fn = "generate_fname" /\ Returned) =>
        /\ ret.kwargs = call.kwargs
        /\ \E parts \in [1..Len(call.kwargs) -> C8_Fields] :
              /\ \A a, b \in 1..Len(parts) :
                    a < b => C8_Rank(parts[a][1]) < C8_Rank(parts[b][1])
              /\ ret.fname = Join([k \in 1..Len(parts) |->
                                    <<parts[k][1], "-", parts[k][2]>>])

\* A mapping inserted as suffix, pixel_j, cls has been named.
C8_Witness ==
    /\ call.fn = "generate_fname" /\ Returned
    /\ call.kwargs = <<<<"suffix", "7">>, <<"pixel_j", "0">>, <<"cls", "7">>>>
    /\ ret.fname = <<"pixel_j", "-", "0", "-", "cls", "-", "7", "-", "suffix", "-", "7">>

C9_Smallest == CHOOSE v \in run.img_seen : \A w \in run.img_seen : v <= w
C9_Largest == CHOOSE v \in run.img_seen : \A w \in run.img_seen : v >= w

\* C9 as stated: once a saliency map of the current image has been generated,
\* (minimum, maximum) are the smallest and the largest saliency value of the
\* maps generated so far for the current image.
C9_AsStated ==
    (run.pc # "off" /\ run.img_seen # {}) =>
        /\ run.minimum = C9_Smallest
        /\ run.maximum = C9_Largest

\* C9 amended: once a saliency map of the current image has been generated,
\* minimum is the smaller of 0 and the smallest value, and maximum the larger
\* of -1000 and the largest value, over the maps (as cropped) generated so far
\* for the current image; the bounds are reset to (0, -1000) at the start of
\* each image, so values of an earlier image never influence them.
C9_BoundsOfCurrentImage ==
    (run.pc # "off" /\ run.img_status # "none") =>
        IF run.img_seen = {}
        THEN run.minimum = 0 /\ run.maximum = -1000
        ELSE /\ run.minimum = Min2(0, C9_Smallest)
             /\ run.maximum = Max2(-1000, C9_Largest)

\* The second image has one map so far, all of value -1, after an earlier
\* image with maps.
C9_Witness ==
    /\ run.pc \in {"layer", "combine"} /\ run.img = 2 /\ run.maps >= 2
    /\ run.img_seen = {-1}
    /\ run.minimum = -1 /\ run.maximum = -1

C10_InBounds(p) ==
    /\ 0 <= p[1] /\ p[1] < TestSize[1]
    /\ 0 <= p[2] /\ p[2] < TestSize[2]

\* C10: in per-pixel mode every pixel for which a backward pass was run or a
\* saliency map generated satisfies 0 <= row < image_height and
\* 0 <= column < image_width (any other selected pixel aborts the run before).
C10_AsStated ==
    (run.pc # "off" /\ ~run.args.whole_image) =>
        \A p \in run.backward \cup run.map_pixels : C10_InBounds(p)

\* IndexError and KeyError are raised by save_overlap alone (lines 179-180):
\* a run aborted with one of them had entered the overlap computation for
\* the map of run.gen.
C11_OverlapEntered == run.pc = "aborted" /\ run.error \in {"IndexError", "KeyError"}

\* C11: whenever the saliency map has been cropped (a crop size and a target
\* pixel were passed, rows and columns 0 included), the overlap computation
\* and its outputs are skipped for every target layer: the overlap is
\* computed, or entered, for uncropped saliency maps only.
C11_AsStated ==
    run.pc # "off" =>
        /\ \A o \in run.overlaps : ~o.cropped
        /\ C11_OverlapEntered => run.gen = NoPixel

====
